---- MODULE Spec2Model ----
(***************************************************************************)
(* TerminalSync server core: ManagedSession, ManagedSessionStore,          *)
(* ClientSession, SessionManager and the tmux attach path, as one state    *)
(* machine.  Every action is one callback of the Node event loop (a        *)
(* WebSocket message, close or error event, a PTY data or exit event, a    *)
(* timer, the continuation of an await), run to completion.                *)
(***************************************************************************)
EXTENDS Integers, Sequences, FiniteSets, TLC

\* ---- bounds of the model ----
\* the slots the state is declared over, and the budget of SpecWide
NumClients == 2
MaxSessions == 2
MaxPtys == 2
\* SpecWide: chunks of PTY output, data events per tmux pty, tmux attaches of
\* one client awaiting their scrollback, callbacks run
MaxChunks == 2
MaxTmuxData == 1
MaxPending == 2
MaxSteps == 5
\* SpecGateway: the callbacks run, and the longest token a request carries
GatewaySteps == 4
MaxTokenLen == 3
\* SpecStatic: the most names a request path has
MaxPathLen == 3
\* SpecRing: the chunks the session produces
RingChunks == 4
\* callbacks explored per behaviour of SpecFrames
FrameSteps == 4
\* SpecTitle: the most pieces (plain text or OSC sequences) a chunk has
MaxPieces == 2
\* Spec: this many clients, sessions, tmux ptys, chunks, tmux data events and
\* awaiting attaches, and any number of callbacks
DeepSlots == 1

\* ---- inputs ----
Clients == 1 .. NumClients
SessionIds == 1 .. MaxSessions
PtyIds == 1 .. MaxPtys
Null == 0
\* config.authToken and the bytes tokens are made of
TokenBytes == {1, 2}
AuthToken == <<1, 2>>
TmuxTarget == 0
\* a payload field that is absent from the frame (undefined)
Undefined == 99
Dims == {<<Undefined, 1>>, <<0, 1>>, <<2, -1>>, <<1, 1>>, <<2, 1>>}
CreateDims == {<<0, 0>>, <<1, 1>>}
AttachDims == {<<0, 0>>, <<2, 1>>}
ChunkLens == {1, 2}
\* opts.name of every created session
SessionName == "a"
MaxClientsChoices == 1 .. NumClients
BufferCap == 2

VARIABLES
  lim,             \* the environment of the run: how many clients, sessions, ptys,
                   \* chunks, steps; the upgrade requests and the files on disk
  steps,           \* callbacks run so far (counted only when the budget limits them)
  maxClients,      \* config.maxClients
  clients,         \* SessionManager.clients (keys)
  idleTimer,       \* SessionManager.idleTimer: "none" | "pending"
  shutdownDone,    \* SessionManager.shutdown() has run
  procExited,      \* process.exit() was called by the idle callback
  ws,              \* socket readyState per client: "NONE" | "OPEN" | "CLOSING" | "CLOSED"
  closeCode,       \* close code the server sent on the socket (0: none)
  state,           \* ClientSession.state
  attachedSession, \* ClientSession.attachedSession (session id or Null)
  lsn,             \* ClientSession.dataListener/exitListener/resizeListener (closure id or 0)
  tmuxPty,         \* ClientSession.tmuxPty (pty id or Null)
  pendingTmux,     \* attachTmux calls awaiting captureScrollback, per client: set of <<seq, dims>>
  pendingList,     \* handleListSessions calls awaiting tmux.listSessions, per client: set of <<seq, managed list>>
  out,             \* frames the last callback wrote to each client's socket, in order
  sessions,        \* ManagedSessionStore.sessions (keys)
  nextSession,     \* number of ManagedSessions constructed
  exited,          \* ManagedSession.exited
  killed,          \* ptyProcess.kill() was called and the exit is still to come
  size,            \* ManagedSession (_cols, _rows)
  name,            \* ManagedSession._name
  ring,            \* ManagedSession.ringBuffer
  ringBytes,       \* ManagedSession.ringBufferBytes
  attachedClients, \* ManagedSession.attachedClients
  dataL,           \* listeners of "data", in registration order: <<client, closure id>>
  exitL,           \* client listeners of "exit"
  resizeL,         \* client listeners of "resize"
  storeL,          \* the store's "exit" listener is installed
  written,         \* ptys the last callback wrote to or resized: session id, or -p for tmux pty p
  nChunks,         \* chunks produced so far (all sessions)
  ptyOwner,        \* tmux attach pty -> ClientSession whose callbacks it holds
  ptyState,        \* "none" | "alive" | "exited"
  ptyDetached,     \* detachGracefully() was written to the pty and its kill timer set
  ptyData,         \* data events the tmux pty produced
  nextPty,         \* tmux attach ptys spawned so far
  signals,         \* store signals ("active", "idle") and session "resize" signals the last callback emitted, in order
  replay,          \* history: the ring snapshot replayed at the client's current managed attach
  pushed,          \* history: every chunk pushed to the session's ring, in push order
  op               \* the callback that ran last: <<name, client, session or pty>>
                   \* (resize: the dims; a rejected upgrade: the token it carried;
                   \* PTY output: the chunk's text as a fourth element)

mgrVars == <<lim, steps, maxClients, clients, idleTimer, shutdownDone, procExited>>
cliVars == <<ws, closeCode, state, attachedSession, lsn, tmuxPty, pendingTmux,
             pendingList, out>>
sesVars == <<sessions, nextSession, exited, killed, size, name, ring, ringBytes,
             attachedClients, dataL, exitL, resizeL, storeL, written, nChunks>>
ptyVars == <<ptyOwner, ptyState, ptyDetached, ptyData, nextPty>>
histVars == <<signals, replay, pushed, op>>
vars == <<mgrVars, cliVars, sesVars, ptyVars, histVars>>

\* ---- frames ----
Frame(type, seq, code, sid, dims, data) ==
  [type |-> type, seq |-> seq, code |-> code, sid |-> sid,
   cols |-> dims[1], rows |-> dims[2], data |-> data]

Json(type, seq, code, sid, dims) == Frame(type, seq, code, sid, dims, <<>>)

ErrorFrame(seq, code) == Json("error", seq, code, Null, <<0, 0>>)

Binary(source, sid, data) == Frame("binary", 0, source, sid, <<0, 0>>, data)

ScrollbackChunk == <<0, 1>>
TmuxChunk == <<0, 2>>

\* ---- the state the ClientSession callbacks read and write, as one value ----
\* (out, written and signals start empty in every callback)
Cur ==
  [state |-> state, att |-> attachedSession, lsn |-> lsn, tmuxPty |-> tmuxPty,
   out |-> [c \in Clients |-> <<>>], dataL |-> dataL, exitL |-> exitL,
   resizeL |-> resizeL, attc |-> attachedClients, ptyDet |-> ptyDetached,
   written |-> {}, sig |-> <<>>, replay |-> replay, name |-> name,
   pushed |-> pushed]

\* one more callback has run; lim.steps = 0 leaves the number of callbacks open
Tick ==
  /\ lim.steps = 0 \/ steps < lim.steps
  /\ steps' = IF lim.steps = 0 THEN 0 ELSE steps + 1

Commit(st) ==
  /\ Tick
  /\ state' = st.state
  /\ attachedSession' = st.att
  /\ lsn' = st.lsn
  /\ tmuxPty' = st.tmuxPty
  /\ out' = st.out
  /\ dataL' = st.dataL
  /\ exitL' = st.exitL
  /\ resizeL' = st.resizeL
  /\ attachedClients' = st.attc
  /\ ptyDetached' = st.ptyDet
  /\ written' = st.written
  /\ signals' = st.sig
  /\ replay' = st.replay
  /\ name' = st.name
  /\ pushed' = st.pushed

\* the variables Commit does not set, by owner
cfgVars == <<lim, maxClients>>
mgrRest == <<clients, idleTimer, shutdownDone, procExited>>
cliRest == <<ws, closeCode, pendingTmux, pendingList>>
sesRest == <<sessions, nextSession, exited, killed, size, ring, ringBytes, storeL, nChunks>>
ptyRest == <<ptyOwner, ptyState, ptyData, nextPty>>

\* ws.send(): the frame goes out only on an OPEN socket
WsSend(st, c, frame) ==
  IF ws[c] = "OPEN" THEN [st EXCEPT !.out[c] = Append(@, frame)] ELSE st

sendJSON(st, c, frame) == WsSend(st, c, frame)

\* an error reply that always carries seq 0
sendError_SeqZero(st, c, seq, code) == sendJSON(st, c, ErrorFrame(0, code))

\* this.sendJSON({type: "error", seq, payload: {code, message}})
sendError(st, c, seq, code) == sendJSON(st, c, ErrorFrame(seq, code))

RemoveListener(list, l) == SelectSeq(list, LAMBDA e : e # l)

\* ManagedSession.attachClient / detachClient
attachClient(set, c) == set \cup {c}

detachClient(set, c) == set \ {c}

detachFromManaged(st, c) ==
  LET s == st.att[c]
      l == <<c, st.lsn[c]>>
      st1 == IF s = Null THEN st
             ELSE [st EXCEPT
                     !.dataL[s] = IF st.lsn[c] # 0 THEN RemoveListener(@, l) ELSE @,
                     !.exitL[s] = IF st.lsn[c] # 0 THEN RemoveListener(@, l) ELSE @,
                     !.resizeL[s] = IF st.lsn[c] # 0 THEN RemoveListener(@, l) ELSE @,
                     !.attc[s] = detachClient(@, c)]
  IN [st1 EXCEPT !.att[c] = Null, !.lsn[c] = 0, !.state[c] = "BROWSING",
                 !.replay[c] = <<>>]

\* detachGracefully() writes the detach keys to the pty and a 500 ms timer
\* will kill it; the pty's onData/onExit callbacks stay installed
detachFromTmux(st, c) ==
  LET p == st.tmuxPty[c]
      st1 == IF p = Null THEN st
             ELSE [st EXCEPT !.ptyDet[p] = TRUE, !.written = @ \cup {-p}]
  IN [st1 EXCEPT !.tmuxPty[c] = Null, !.state[c] = "BROWSING"]

cleanup(st, c) ==
  LET st1 == IF st.att[c] # Null THEN detachFromManaged(st, c) ELSE st
      st2 == IF st1.tmuxPty[c] # Null THEN detachFromTmux(st1, c) ELSE st1
  IN [st2 EXCEPT !.state[c] = "BROWSING"]

\* ---- ManagedSessionStore / SessionManager helpers ----
getRunningCount(sess, ex) == Cardinality({s \in sess : ~ex[s]})

\* a cancelIdleTimer that leaves the timer running
cancelIdleTimer_Keep(timer) == timer

cancelIdleTimer(timer) == "none"

\* a checkIdle that forgets the store's running count
checkIdle_ClientsOnly(cl, running, timer) ==
  IF cl = {} /\ timer = "none" THEN "pending" ELSE timer

\* a checkIdle that arms the timer only while sessions are running
checkIdle_Inverted(cl, running, timer) ==
  IF cl = {} /\ running # 0 /\ timer = "none" THEN "pending" ELSE timer

checkIdle(cl, running, timer) ==
  IF cl = {} /\ running = 0 /\ timer = "none" THEN "pending" ELSE timer

\* ---- the static file handler: paths ----
\* a file or directory name is a sequence of characters, a filesystem path the
\* sequence of its names from the root
DirName == <<"d">>
WebName == <<"w">>
SiblingName == <<"w", "2">>
IndexHtml == <<"i">>
SecretName == <<"s">>
DotDot == <<".", ".">>

\* webRoot = resolve(__dirname, "../web")
WebRoot == <<DirName, WebName>>

\* the files a disk may hold: index.html in the web root, a file in a
\* directory next to the web root, a file in the parent directory
FileSystems ==
  {F \cup {<<DirName, SecretName>>} :
     F \in SUBSET {WebRoot \o <<IndexHtml>>, <<DirName, SiblingName, SecretName>>}}

\* the directories of a disk: the web root and every ancestor of a file
Directories(files) ==
  {SubSeq(f, 1, n) : <<f, n>> \in {<<g, k>> \in (files \cup {WebRoot \o <<IndexHtml>>}) \X (0 .. 3) :
                                     k < Len(g)}}

\* the path as a string: "/" before every name
RECURSIVE PathString(_)
PathString(path) ==
  IF path = <<>> THEN <<>> ELSE <<"/">> \o Head(path) \o PathString(Tail(path))

\* String.prototype.startsWith
startsWith(str, prefix) ==
  Len(prefix) <= Len(str) /\ SubSeq(str, 1, Len(prefix)) = prefix

\* a request path as it is on the wire: names, each preceded by "/" or by an
\* encoded slash "%2f"; the first separator is a "/"
Separators == {"/", "%2f"}
RequestNames == {DotDot, SiblingName, IndexHtml, SecretName}

RawPaths ==
  {<<>>} \cup
  {p \in UNION {[1 .. n -> Separators \X RequestNames] : n \in 1 .. MaxPathLen} :
     p[1][1] = "/"}

\* the segments of the raw path: it is split at "/" only
RECURSIVE RawSegments(_)
RawSegments(raw) ==
  IF raw = <<>> THEN <<>>
  ELSE LET init == RawSegments(SubSeq(raw, 1, Len(raw) - 1))
           last == raw[Len(raw)]
       IN IF last[1] = "/"
            THEN Append(init, <<last[2]>>)
            ELSE [init EXCEPT ![Len(init)] = Append(@, last[2])]

\* new URL(req.url, base).pathname: the URL parser drops a ".." segment
\* together with the segment before it
RECURSIVE RemoveDotSegments(_)
RemoveDotSegments(segs) ==
  IF segs = <<>> THEN <<>>
  ELSE LET init == RemoveDotSegments(SubSeq(segs, 1, Len(segs) - 1))
           last == segs[Len(segs)]
       IN IF last = <<DotDot>>
            THEN (IF init = <<>> THEN <<>> ELSE SubSeq(init, 1, Len(init) - 1))
            ELSE Append(init, last)

\* decodeURIComponent(url.pathname).slice(1): "%2f" becomes "/", so every
\* name of every segment is a name of the relative path; "/" is "/index.html"
RECURSIVE Flatten(_)
Flatten(segs) ==
  IF segs = <<>> THEN <<>> ELSE Head(segs) \o Flatten(Tail(segs))

relPath(raw) ==
  LET names == Flatten(RemoveDotSegments(RawSegments(raw)))
  IN IF names = <<>> THEN <<IndexHtml>> ELSE names

\* path.resolve(from, ...names), already normalized
RECURSIVE resolve(_, _)
resolve(from, names) ==
  IF names = <<>> THEN from
  ELSE IF Head(names) = DotDot
    THEN resolve(IF from = <<>> THEN <<>> ELSE SubSeq(from, 1, Len(from) - 1), Tail(names))
  ELSE resolve(Append(from, Head(names)), Tail(names))

\* serveFile: <<handled, status, the file whose content is sent>>
serveFile(files, filePath) ==
  LET resolved == resolve(WebRoot, filePath) IN
  IF ~startsWith(PathString(resolved), PathString(WebRoot)) THEN <<TRUE, 403, <<>>>>
  ELSE IF resolved \notin files \cup Directories(files) THEN <<FALSE, 0, <<>>>>
  ELSE IF resolved \in files THEN <<TRUE, 200, resolved>>
  ELSE \* readFileSync of a directory throws
       <<FALSE, 0, <<>>>>

\* the static part of the HTTP request handler: the file, else index.html, else 404
staticResponse(files, raw) ==
  LET first == serveFile(files, relPath(raw))
      fallback == serveFile(files, <<IndexHtml>>)
  IN IF first[1] THEN <<first[2], first[3]>>
     ELSE IF fallback[1] THEN <<fallback[2], fallback[3]>>
     ELSE <<404, <<>>>>

Budget(nc, ns, np, nch, ntd, npend, nsteps, reqs) ==
  [clients |-> nc, sessions |-> ns, ptys |-> np, chunks |-> nch,
   tmuxData |-> ntd, pending |-> npend, steps |-> nsteps, requests |-> reqs,
   files |-> {WebRoot \o <<IndexHtml>>}, chunkLens |-> ChunkLens,
   pieces |-> 0]

InitWith(budget) ==
  /\ lim = budget
  /\ steps = 0
  /\ maxClients \in {n \in MaxClientsChoices : n <= budget.clients}
  /\ clients = {}
  /\ idleTimer = "none"
  /\ shutdownDone = FALSE
  /\ procExited = FALSE
  /\ ws = [c \in Clients |-> "NONE"]
  /\ closeCode = [c \in Clients |-> 0]
  /\ state = [c \in Clients |-> "BROWSING"]
  /\ attachedSession = [c \in Clients |-> Null]
  /\ lsn = [c \in Clients |-> 0]
  /\ tmuxPty = [c \in Clients |-> Null]
  /\ pendingTmux = [c \in Clients |-> {}]
  /\ pendingList = [c \in Clients |-> {}]
  /\ out = [c \in Clients |-> <<>>]
  /\ sessions = {}
  /\ nextSession = 0
  /\ exited = [s \in SessionIds |-> FALSE]
  /\ killed = [s \in SessionIds |-> FALSE]
  /\ size = [s \in SessionIds |-> <<0, 0>>]
  /\ name = [s \in SessionIds |-> ""]
  /\ ring = [s \in SessionIds |-> <<>>]
  /\ ringBytes = [s \in SessionIds |-> 0]
  /\ attachedClients = [s \in SessionIds |-> {}]
  /\ dataL = [s \in SessionIds |-> <<>>]
  /\ exitL = [s \in SessionIds |-> <<>>]
  /\ resizeL = [s \in SessionIds |-> <<>>]
  /\ storeL = [s \in SessionIds |-> FALSE]
  /\ written = {}
  /\ nChunks = 0
  /\ ptyOwner = [p \in PtyIds |-> Null]
  /\ ptyState = [p \in PtyIds |-> "none"]
  /\ ptyDetached = [p \in PtyIds |-> FALSE]
  /\ ptyData = [p \in PtyIds |-> 0]
  /\ nextPty = 0
  /\ signals = <<>>
  /\ replay = [c \in Clients |-> <<>>]
  /\ pushed = [s \in SessionIds |-> <<>>]
  /\ op = <<"init", Null, Null>>

\* ---- Gateway: the HTTP upgrade handler ----
\* an upgrade request: the `token` query parameter (absent, or its decoded
\* value) and the Authorization header (scheme "none": no header)
NoToken == [has |-> FALSE, tok |-> <<>>]

Token(t) == [has |-> TRUE, tok |-> t]

Tokens == UNION {[1 .. n -> TokenBytes] : n \in 0 .. MaxTokenLen}

Schemes == {"none", "Bearer", "Basic"}

\* (a request that carries both a query token and a header carries tokens
\* shorter than MaxTokenLen)
Requests ==
  {r \in [query : {NoToken} \cup {Token(t) : t \in Tokens}, scheme : Schemes, cred : Tokens] :
     /\ r.scheme = "none" => r.cred = <<>>
     /\ (r.query.has /\ r.scheme # "none") =>
          (Len(r.query.tok) < MaxTokenLen /\ Len(r.cred) < MaxTokenLen)}

\* the requests a run of few callbacks and many sockets draws from
QueryRequest(t) == [query |-> Token(t), scheme |-> "none", cred |-> <<>>]

BearerRequest(t) == [query |-> NoToken, scheme |-> "Bearer", cred |-> t]

FewRequests ==
  {QueryRequest(AuthToken), BearerRequest(AuthToken),
   [query |-> NoToken, scheme |-> "none", cred |-> <<>>],
   QueryRequest(<<Head(AuthToken)>>), BearerRequest(Append(AuthToken, Head(AuthToken)))}

\* extractToken: a non-empty query token, else the Bearer credential, else null
extractToken(req) ==
  IF req.query.has /\ req.query.tok # <<>> THEN Token(req.query.tok)
  ELSE IF req.scheme = "Bearer" THEN Token(req.cred)
  ELSE NoToken

\* a comparison that stops at the end of the shorter token
constantTimeCompare_Prefix(a, b) ==
  \A i \in 1 .. (IF Len(a) < Len(b) THEN Len(a) ELSE Len(b)) : a[i] = b[i]

timingSafeEqual(a, b) == \A i \in 1 .. Len(a) : a[i] = b[i]

constantTimeCompare(a, b) ==
  IF Len(a) # Len(b) THEN FALSE ELSE timingSafeEqual(a, b)

\* the upgrade handler's test: !(!token || !constantTimeCompare(token, authToken))
authorized(req) ==
  LET token == extractToken(req)
  IN ~(~token.has \/ token.tok = <<>> \/ ~constantTimeCompare(token.tok, AuthToken))

\* an addClient without the maxClients test
addClient_NoCap(c) ==
  /\ ~procExited /\ ~shutdownDone
  /\ ws[c] = "NONE"
  /\ c <= lim.clients /\ \A x \in Clients : x < c => ws[x] # "NONE"
  /\ idleTimer' = cancelIdleTimer(idleTimer)
  /\ clients' = clients \cup {c}
  /\ ws' = [ws EXCEPT ![c] = "OPEN"]
  /\ op' = <<"addClient", c, Null>>
  /\ Commit(Cur)
  /\ UNCHANGED <<cfgVars, shutdownDone, procExited, closeCode, pendingTmux, pendingList,
                 sesRest, ptyRest>>

\* ---- Gateway upgrade -> SessionManager.addClient ----
\* (sockets are numbered in the order they connect)
addClient(c) ==
  /\ ~procExited /\ ~shutdownDone
  /\ ws[c] = "NONE"
  /\ c <= lim.clients /\ \A x \in Clients : x < c => ws[x] # "NONE"
  /\ IF Cardinality(clients) >= maxClients
       THEN /\ ws' = [ws EXCEPT ![c] = "CLOSING"]
            /\ closeCode' = [closeCode EXCEPT ![c] = 1013]
            /\ op' = <<"addClient_refused", c, Null>>
            /\ UNCHANGED <<clients, idleTimer>>
       ELSE /\ idleTimer' = cancelIdleTimer(idleTimer)
            /\ clients' = clients \cup {c}
            /\ ws' = [ws EXCEPT ![c] = "OPEN"]
            /\ op' = <<"addClient", c, Null>>
            /\ UNCHANGED closeCode
  /\ Commit(Cur)
  /\ UNCHANGED <<cfgVars, shutdownDone, procExited, pendingTmux, pendingList,
                 sesRest, ptyRest>>

\* the upgrade handler: 401 and socket.destroy() unless the token matches,
\* else wss.handleUpgrade hands the socket to addClient
upgrade(c, req) ==
  IF authorized(req)
    THEN addClient(c)
    ELSE /\ ~procExited /\ ~shutdownDone
         /\ ws[c] = "NONE"
         /\ c <= lim.clients /\ \A x \in Clients : x < c => ws[x] # "NONE"
         /\ Commit(Cur)
         /\ op' = <<"upgrade_401", c, extractToken(req)>>
         /\ UNCHANGED <<cfgVars, mgrRest, cliRest, sesRest, ptyRest>>

\* ---- the HTTP request handler ----
httpHealth ==
  /\ ~procExited
  /\ Commit(Cur)
  /\ op' = <<"http_health", Null, <<200, Cardinality(clients)>>>>
  /\ UNCHANGED <<cfgVars, mgrRest, cliRest, sesRest, ptyRest>>

httpGet(raw) ==
  /\ ~procExited
  /\ Commit(Cur)
  /\ op' = <<"http_get", raw, staticResponse(lim.files, raw)>>
  /\ UNCHANGED <<cfgVars, mgrRest, cliRest, sesRest, ptyRest>>

\* a text frame of client c arrives (the ws library delivers messages of an
\* OPEN socket)
Arrives(c) == ~procExited /\ ws[c] = "OPEN"

\* the seq of the arriving request: the server only echoes it, so the client's
\* choice is modelled by the least positive seq no request in flight uses
ReqSeq(c) ==
  LET used == {e[1] : e \in pendingTmux[c] \cup pendingList[c]}
  IN CHOOSE q \in 1 .. (Cardinality(used) + 1) :
       q \notin used /\ \A j \in 1 .. (q - 1) : j \in used

\* requests of client c that are suspended at an await
Awaiting(c) == Cardinality(pendingTmux[c]) + Cardinality(pendingList[c])

\* the message handler's catch: parseClientMessage threw
ParseError(c) ==
  /\ Arrives(c)
  /\ Commit(sendError(Cur, c, 0, "PARSE_ERROR"))
  /\ op' = <<"parse_error", c, Null>>
  /\ UNCHANGED <<cfgVars, mgrRest, ws, closeCode, pendingTmux, pendingList, sesRest, ptyRest>>

\* a store that announces a session before it is constructed
createEmits_BeforeSpawn(spawned) == <<"active">>

\* store.create: emit("active") comes after new ManagedSession(opts), whose
\* pty.spawn may throw
createEmits(spawned) == IF spawned THEN <<"active">> ELSE <<>>

\* handleCreateSession -> store.create -> new ManagedSession; pty.spawn may throw
handleCreateSession(c, dims, spawnOk) ==
  /\ Arrives(c)
  /\ spawnOk => nextSession < lim.sessions
  /\ IF spawnOk
       THEN LET s == nextSession + 1 IN
            /\ nextSession' = s
            /\ sessions' = sessions \cup {s}
            /\ size' = [size EXCEPT ![s] = dims]
            /\ storeL' = [storeL EXCEPT ![s] = TRUE]
            /\ idleTimer' = cancelIdleTimer(idleTimer)
            /\ Commit(sendJSON([Cur EXCEPT !.sig = createEmits(TRUE),
                                            !.name[s] = SessionName], c,
                               Json("session_created", ReqSeq(c), "", s, <<0, 0>>)))
            /\ op' = <<"create_session", c, s>>
       ELSE /\ Commit(sendError([Cur EXCEPT !.sig = createEmits(FALSE)], c, ReqSeq(c),
                                 "CREATE_FAILED"))
            /\ op' = <<"create_failed", c, Null>>
            /\ UNCHANGED <<nextSession, sessions, size, storeL, idleTimer>>
  /\ UNCHANGED <<cfgVars, clients, shutdownDone, procExited, ws, closeCode,
                 pendingTmux, pendingList, exited, killed, ring, ringBytes, nChunks, ptyRest>>

\* a session that never counts as exited
hasExited_Never(s) == FALSE

\* ManagedSession.hasExited
hasExited(s) == exited[s]

\* a status that never turns to exited
getStatus_Running(s) == "running"

\* ManagedSession.getStatus
getStatus(s) == IF exited[s] THEN "exited" ELSE "running"

\* store.list().map(...): id, status and attached-client count of every
\* session in the store
RECURSIVE ManagedList(_)
ManagedList(n) ==
  IF n = 0 THEN <<>>
  ELSE LET rest == ManagedList(n - 1)
       IN IF n \in sessions
            THEN Append(rest, <<n, getStatus(n), Cardinality(attachedClients[n])>>)
            ELSE rest

\* handleListSessions up to `await this.tmux.listSessions()`: the managed
\* part of the list is taken before the await
handleListSessions(c) ==
  /\ Arrives(c)
  /\ Awaiting(c) < lim.pending
  /\ pendingList' = [pendingList EXCEPT ![c] = @ \cup {<<ReqSeq(c), ManagedList(MaxSessions)>>}]
  /\ Commit(Cur)
  /\ op' = <<"list_await", c, Null>>
  /\ UNCHANGED <<cfgVars, mgrRest, ws, closeCode, pendingTmux, sesRest, ptyRest>>

\* handleListSessions after the await: the reply (tmux.listSessions never
\* rejects: it returns [] on every failure)
listSessionsDone(c, e) ==
  /\ ~procExited
  /\ e \in pendingList[c]
  /\ pendingList' = [pendingList EXCEPT ![c] = @ \ {e}]
  /\ Commit(sendJSON(Cur, c, Frame("session_list", e[1], "", Null, <<0, 0>>, e[2])))
  /\ op' = <<"list_sessions", c, Null>>
  /\ UNCHANGED <<cfgVars, mgrRest, ws, closeCode, pendingTmux, sesRest, ptyRest>>

\* a fresh closure id for the client's new data/exit/resize listeners: the
\* least one no session still holds
FreshListener(c) ==
  LET used == {k \in 1 .. (3 * MaxSessions + 1) :
                 \E s \in SessionIds :
                   \E i \in 1 .. Len(exitL[s]) : exitL[s][i] = <<c, k>>}
  IN CHOOSE k \in 1 .. (3 * MaxSessions + 1) : k \notin used /\ \A j \in 1 .. (k - 1) : j \in used

\* an `attached` reply that echoes the size the attach asked for
attachedReply_Requested(q, target, dims) == Json("attached", q, "", target, dims)

\* the reply of a managed attach: payload {target, cols: session.cols, rows: session.rows}
attachedReply(q, target, dims) == Json("attached", q, "", target, size[target])

\* handleAttach, the part that runs before the first await
handleAttach(c, target, dims) ==
  /\ Arrives(c)
  /\ LET q == ReqSeq(c) IN
     IF state[c] = "ATTACHED"
       THEN /\ Commit(sendError(Cur, c, q, "ALREADY_ATTACHED"))
            /\ op' = <<"attach_refused", c, target>>
            /\ UNCHANGED pendingTmux
     ELSE IF target = TmuxTarget
       THEN \* attachTmux runs up to `await captureScrollback(...)`
            /\ Awaiting(c) < lim.pending
            /\ pendingTmux' = [pendingTmux EXCEPT ![c] = @ \cup {<<q, dims>>}]
            /\ Commit(Cur)
            /\ op' = <<"attach_tmux_await", c, target>>
     ELSE IF target \notin sessions
       THEN /\ Commit(sendError(Cur, c, q, "SESSION_NOT_FOUND"))
            /\ op' = <<"attach_refused", c, target>>
            /\ UNCHANGED pendingTmux
     ELSE IF hasExited(target)
       THEN /\ Commit(sendError(Cur, c, q, "SESSION_EXITED"))
            /\ op' = <<"attach_refused", c, target>>
            /\ UNCHANGED pendingTmux
     ELSE LET k == FreshListener(c)
              st1 == [Cur EXCEPT !.att[c] = target,
                                 !.attc[target] = attachClient(@, c),
                                 !.state[c] = "ATTACHED",
                                 !.replay[c] = ring[target]]
              st2 == IF ring[target] # <<>>
                       THEN WsSend(st1, c, Binary("managed", target, ring[target]))
                       ELSE st1
              st3 == [st2 EXCEPT !.lsn[c] = k,
                                 !.dataL[target] = Append(@, <<c, k>>),
                                 !.exitL[target] = Append(@, <<c, k>>),
                                 !.resizeL[target] = Append(@, <<c, k>>)]
          IN /\ Commit(sendJSON(st3, c, attachedReply(q, target, dims)))
             /\ op' = <<"attach", c, target>>
             /\ UNCHANGED pendingTmux
  /\ UNCHANGED <<cfgVars, mgrRest, ws, closeCode, pendingList, sesRest, ptyRest>>

\* attachTmux, the continuation of `await captureScrollback(...)`;
\* captureScrollback returns "" or text, spawnAttach may throw
attachTmux(c, e, scrollback, spawnOk) ==
  /\ ~procExited
  /\ e \in pendingTmux[c]
  /\ spawnOk => nextPty < lim.ptys
  /\ pendingTmux' = [pendingTmux EXCEPT ![c] = @ \ {e}]
  /\ IF spawnOk
       THEN LET p == nextPty + 1
                st1 == [Cur EXCEPT !.tmuxPty[c] = p, !.state[c] = "ATTACHED"]
                st2 == IF scrollback
                         THEN WsSend(st1, c, Binary("tmux", p, <<ScrollbackChunk>>))
                         ELSE st1
            IN /\ nextPty' = p
               /\ ptyOwner' = [ptyOwner EXCEPT ![p] = c]
               /\ ptyState' = [ptyState EXCEPT ![p] = "alive"]
               /\ Commit(sendJSON(st2, c, Json("attached", e[1], "", TmuxTarget, e[2])))
               /\ op' = <<"attach_tmux", c, p>>
       ELSE /\ Commit(sendError(Cur, c, e[1], "ATTACH_FAILED"))
            /\ op' = <<"attach_tmux_failed", c, Null>>
            /\ UNCHANGED <<nextPty, ptyOwner, ptyState>>
  /\ UNCHANGED <<cfgVars, mgrRest, ws, closeCode, pendingList, sesRest, ptyData>>

\* ManagedSession.write
write(st, s) ==
  IF ~exited[s] THEN [st EXCEPT !.written = @ \cup {s}] ELSE st

handleInput(c) ==
  /\ Arrives(c)
  /\ IF state[c] # "ATTACHED"
       THEN Commit(sendError(Cur, c, ReqSeq(c), "NOT_ATTACHED"))
     ELSE IF attachedSession[c] # Null
       THEN Commit(write(Cur, attachedSession[c]))
     ELSE IF tmuxPty[c] # Null
       THEN Commit([Cur EXCEPT !.written = @ \cup {-tmuxPty[c]}])
     ELSE Commit(Cur)
  /\ op' = <<"input", c, Null>>
  /\ UNCHANGED <<cfgVars, mgrRest, ws, closeCode, pendingTmux, pendingList, sesRest, ptyRest>>

\* emit("resize", cols, rows): every resizeListener pushes `resized`
RECURSIVE ResizeFanOut(_, _, _)
ResizeFanOut(st, list, dims) ==
  IF list = <<>> THEN st
  ELSE ResizeFanOut(sendJSON(st, Head(list)[1], Json("resized", 0, "", Null, dims)),
                    Tail(list), dims)

\* ManagedSession.resize: ptyProcess.resize is called unless the child exited
ptyResize(st, s) ==
  IF ~exited[s] THEN [st EXCEPT !.written = @ \cup {s}] ELSE st

\* x <= 0 in JavaScript: false when x is undefined
LeqZero(x) == x # Undefined /\ x <= 0

\* ManagedSession.resize: does it get past the two early returns?
resizeApplies(s, dims) ==
  /\ ~(LeqZero(dims[1]) \/ LeqZero(dims[2]))
  /\ ~(dims[1] = size[s][1] /\ dims[2] = size[s][2])

\* ptyProcess.resize(cols, rows) of node-pty throws unless both are numbers
resizeThrows(dims) == dims[1] = Undefined \/ dims[2] = Undefined

\* handleResize; tmuxPty.resize may throw, which the message handler catches
handleResize(c, dims, ptyThrows) ==
  /\ Arrives(c)
  /\ ptyThrows => (state[c] = "ATTACHED" /\ attachedSession[c] = Null /\ tmuxPty[c] # Null)
  /\ IF state[c] # "ATTACHED"
       THEN /\ Commit(sendError(Cur, c, ReqSeq(c), "NOT_ATTACHED"))
            /\ UNCHANGED size
     ELSE IF attachedSession[c] # Null
       THEN LET s == attachedSession[c] IN
            IF resizeApplies(s, dims)
              THEN /\ size' = [size EXCEPT ![s] = dims]
                   /\ IF ~exited[s] /\ resizeThrows(dims)
                        THEN \* the throw leaves resize() before the emit and
                             \* is caught by the message handler
                             Commit(sendError(Cur, c, 0, "PARSE_ERROR"))
                        ELSE Commit(ResizeFanOut(ptyResize([Cur EXCEPT !.sig = <<"resize">>], s),
                                                 resizeL[s], dims))
              ELSE /\ Commit(Cur)
                   /\ UNCHANGED size
     ELSE IF tmuxPty[c] # Null /\ ptyThrows
       THEN /\ Commit(sendError(Cur, c, 0, "PARSE_ERROR"))
            /\ UNCHANGED size
     ELSE IF tmuxPty[c] # Null
       THEN /\ Commit([Cur EXCEPT !.written = @ \cup {-tmuxPty[c]}])
            /\ UNCHANGED size
     ELSE /\ Commit(Cur)
          /\ UNCHANGED size
  /\ op' = <<"resize", c, dims>>
  /\ UNCHANGED <<cfgVars, mgrRest, ws, closeCode, pendingTmux, pendingList, ptyRest>>
  /\ UNCHANGED <<sessions, nextSession, exited, killed, ring, ringBytes, storeL, nChunks>>

handleDetach(c) ==
  /\ Arrives(c)
  /\ LET q == ReqSeq(c)
         reply == Json("detached", q, "client_request", Null, <<0, 0>>)
     IN
     IF state[c] # "ATTACHED"
       THEN Commit(sendError(Cur, c, q, "NOT_ATTACHED"))
     ELSE IF attachedSession[c] # Null
       THEN Commit(sendJSON(detachFromManaged(Cur, c), c, reply))
     ELSE IF tmuxPty[c] # Null
       THEN Commit(sendJSON(detachFromTmux(Cur, c), c, reply))
     ELSE Commit(sendJSON(Cur, c, reply))
  /\ op' = <<"detach", c, Null>>
  /\ UNCHANGED <<cfgVars, mgrRest, ws, closeCode, pendingTmux, pendingList, sesRest, ptyRest>>

\* ---- ManagedSession PTY events ----
ByteLen(chunk) == chunk[2]

\* an eviction that drops one chunk at most
Evict_Once(rb, cap) ==
  IF rb[2] > cap /\ Len(rb[1]) > 1
    THEN <<Tail(rb[1]), rb[2] - ByteLen(Head(rb[1]))>>
    ELSE rb

\* the eviction loop of pushToBuffer, on <<ringBuffer, ringBufferBytes>>
RECURSIVE Evict(_, _)
Evict(rb, cap) ==
  IF rb[2] > cap /\ Len(rb[1]) > 1
    THEN Evict(<<Tail(rb[1]), rb[2] - ByteLen(Head(rb[1]))>>, cap)
    ELSE rb

\* a pushToBuffer without the eviction loop
pushToBuffer_NoEvict(rb, chunk, cap) ==
  <<Append(rb[1], chunk), rb[2] + ByteLen(chunk)>>

pushToBuffer(rb, chunk, cap) ==
  Evict(<<Append(rb[1], chunk), rb[2] + ByteLen(chunk)>>, cap)

\* the bytes of a chunk
Bytes(chunk) == [i \in 1 .. ByteLen(chunk) |-> <<chunk[1], i>>]

\* ringBuffer.join("")
RECURSIVE Join(_)
Join(chunks) == IF chunks = <<>> THEN <<>> ELSE Bytes(Head(chunks)) \o Join(Tail(chunks))

\* ManagedSession.getBufferedOutput
getBufferedOutput(s) == Join(ring[s])

\* emit("data", chunk): every dataListener forwards the chunk as one binary frame
RECURSIVE DataFanOut(_, _, _, _)
DataFanOut(st, list, s, chunk) ==
  IF list = <<>> THEN st
  ELSE DataFanOut(WsSend(st, Head(list)[1], Binary("managed", s, <<chunk>>)),
                  Tail(list), s, chunk)

\* ---- window titles in the output ----
\* the text of a chunk, as far as the title scan sees it: a sequence of
\* pieces, each plain text or an OSC sequence ESC ] code ; title followed by
\* BEL, by ESC \ (ST), or by neither
Plain == [code |-> -1, title |-> "", term |-> "none"]

Osc(code, title, term) == [code |-> code, title |-> title, term |-> term]

Titles == {"", "a", "b"}

Pieces ==
  {Plain} \cup {Osc(k, t, e) : k \in {0, 1, 2}, t \in Titles, e \in {"BEL", "ST", "none"}}

\* the texts of at most max pieces
ChunkTexts(max) == UNION {[1 .. n -> Pieces] : n \in 0 .. max}

NoMatch == [found |-> FALSE, title |-> ""]

\* does the regular expression match at this piece?
TitleSequence(p) == p.code \in {0, 2} /\ p.term \in {"BEL", "ST"}

\* extractTitle: the first match of /\x1b\](?:0|2);([^\x07\x1b]*?)(?:\x07|\x1b\\)/
extractTitle(text) ==
  LET hits == {i \in 1 .. Len(text) : TitleSequence(text[i])}
  IN IF hits = {} THEN NoMatch
     ELSE [found |-> TRUE, title |-> text[CHOOSE i \in hits : \A j \in hits : i <= j].title]

\* `title && title !== this._name`: null and the empty string are falsy
titleChanges(s, text) ==
  LET m == extractTitle(text)
  IN m.found /\ m.title # "" /\ m.title # name[s]

\* ptyProcess.onData of a ManagedSession: pushToBuffer, the title scan,
\* then emit("data")
ptyOnData(s, len, text) ==
  /\ ~procExited
  /\ s <= nextSession /\ ~exited[s]
  /\ nChunks < lim.chunks
  /\ LET chunk == <<nChunks + 1, len>>
         rb == pushToBuffer(<<ring[s], ringBytes[s]>>, chunk, BufferCap)
         st1 == IF titleChanges(s, text)
                  THEN [Cur EXCEPT !.name[s] = extractTitle(text).title,
                                   !.sig = <<"title">>]
                  ELSE Cur
         st2 == [st1 EXCEPT !.sig = Append(@, "data"), !.pushed[s] = Append(@, chunk)]
     IN /\ nChunks' = nChunks + 1
        /\ ring' = [ring EXCEPT ![s] = rb[1]]
        /\ ringBytes' = [ringBytes EXCEPT ![s] = rb[2]]
        /\ Commit(DataFanOut(st2, dataL[s], s, chunk))
  /\ op' = <<"pty_data", Null, s, text>>
  /\ UNCHANGED <<cfgVars, mgrRest, cliRest, ptyRest>>
  /\ UNCHANGED <<sessions, nextSession, exited, killed, size, storeL>>

\* one exitListener of a ClientSession
exitListener(st, c) ==
  IF st.state[c] = "ATTACHED"
    THEN sendJSON(detachFromManaged(st, c), c,
                  Json("detached", 0, "session_exit", Null, <<0, 0>>))
    ELSE st

\* emit("exit", code) over the listeners registered when the emit started
RECURSIVE ExitFanOut(_, _)
ExitFanOut(st, list) ==
  IF list = <<>> THEN st
  ELSE ExitFanOut(exitListener(st, Head(list)[1]), Tail(list))

\* a store "exit" listener that emits "idle" on every exit
storeExitListener_Always(st, s, exitedNow) ==
  IF storeL[s] THEN [st EXCEPT !.sig = Append(@, "idle")] ELSE st

\* the store's "exit" listener installed by create(): emits "idle" when no
\* session of the store is running any more
storeExitListener(st, s, exitedNow) ==
  IF storeL[s] /\ getRunningCount(sessions, exitedNow) = 0
    THEN [st EXCEPT !.sig = Append(@, "idle")]
    ELSE st

\* ptyProcess.onExit of a ManagedSession: the store's listener runs first,
\* then the clients' exitListeners
ptyOnExit(s) ==
  /\ ~procExited
  /\ s <= nextSession /\ ~exited[s]
  /\ exited' = [exited EXCEPT ![s] = TRUE]
  /\ killed' = [killed EXCEPT ![s] = FALSE]
  /\ LET st1 == storeExitListener(Cur, s, exited')
     IN /\ idleTimer' = IF st1.sig # <<>>
                          THEN checkIdle(clients, getRunningCount(sessions, exited'), idleTimer)
                          ELSE idleTimer
        /\ Commit(ExitFanOut(st1, exitL[s]))
  /\ op' = <<"pty_exit", Null, s>>
  /\ UNCHANGED <<cfgVars, clients, shutdownDone, procExited, cliRest, ptyRest>>
  /\ UNCHANGED <<sessions, nextSession, size, ring, ringBytes, storeL, nChunks>>

\* ---- tmux attach PTY events ----
\* ptyProcess.onData callback installed by attachTmux
tmuxOnData(p) ==
  /\ ~procExited
  /\ ptyState[p] = "alive"
  /\ ptyData[p] < lim.tmuxData
  /\ ptyData' = [ptyData EXCEPT ![p] = @ + 1]
  /\ Commit(WsSend(Cur, ptyOwner[p], Binary("tmux", p, <<TmuxChunk>>)))
  /\ op' = <<"tmux_data", ptyOwner[p], p>>
  /\ UNCHANGED <<cfgVars, mgrRest, cliRest, sesRest, ptyOwner, ptyState, nextPty>>

\* ptyProcess.onExit callback installed by attachTmux; the attach process ends
\* by itself, after the detach keys, or when the 500 ms kill timer fires
tmuxOnExit(p) ==
  /\ ~procExited
  /\ ptyState[p] = "alive"
  /\ ptyState' = [ptyState EXCEPT ![p] = "exited"]
  /\ LET c == ptyOwner[p] IN
     IF state[c] = "ATTACHED"
       THEN Commit(sendJSON([Cur EXCEPT !.state[c] = "BROWSING", !.tmuxPty[c] = Null],
                            c, Json("detached", 0, "session_exit", Null, <<0, 0>>)))
       ELSE Commit(Cur)
  /\ op' = <<"tmux_exit", ptyOwner[p], p>>
  /\ UNCHANGED <<cfgVars, mgrRest, cliRest, sesRest, ptyOwner, ptyData, nextPty>>

\* ---- ManagedSessionStore.remove / shutdown ----
\* a removal that empties the map
DropSessions_All(gone) ==
  /\ killed' = [s \in SessionIds |-> IF s \in gone THEN ~exited[s] ELSE killed[s]]
  /\ storeL' = [s \in SessionIds |-> IF s \in gone THEN FALSE ELSE storeL[s]]
  /\ sessions' = {}

\* kill() and removeAllListeners() of every session in `gone`, then delete
DropSessions(gone) ==
  /\ killed' = [s \in SessionIds |-> IF s \in gone THEN ~exited[s] ELSE killed[s]]
  /\ storeL' = [s \in SessionIds |-> IF s \in gone THEN FALSE ELSE storeL[s]]
  /\ sessions' = sessions \ gone

DropListeners(st, gone) ==
  [st EXCEPT !.dataL = [s \in SessionIds |-> IF s \in gone THEN <<>> ELSE @[s]],
             !.exitL = [s \in SessionIds |-> IF s \in gone THEN <<>> ELSE @[s]],
             !.resizeL = [s \in SessionIds |-> IF s \in gone THEN <<>> ELSE @[s]]]

remove(s) ==
  /\ ~procExited
  /\ s <= nextSession
  /\ IF s \in sessions
       THEN /\ DropSessions({s})
            /\ Commit(DropListeners(Cur, {s}))
            /\ op' = <<"remove", Null, s>>
       ELSE /\ Commit(Cur)
            /\ op' = <<"remove_absent", Null, s>>
            /\ UNCHANGED <<killed, storeL, sessions>>
  /\ UNCHANGED <<cfgVars, mgrRest, cliRest, ptyRest>>
  /\ UNCHANGED <<nextSession, exited, size, ring, ringBytes, nChunks>>

\* ---- SessionManager.shutdown ----
RECURSIVE CleanupAll(_, _)
CleanupAll(st, cs) ==
  IF cs = {} THEN st
  ELSE LET c == CHOOSE x \in cs : \A y \in cs : x <= y
       IN CleanupAll(cleanup(st, c), cs \ {c})

\* the body of shutdown(): cleanup and close(1001) every client, then store.shutdown()
ShutdownEffect ==
  /\ idleTimer' = cancelIdleTimer(idleTimer)
  /\ ws' = [c \in Clients |-> IF c \in clients /\ ws[c] = "OPEN" THEN "CLOSING" ELSE ws[c]]
  /\ closeCode' = [c \in Clients |-> IF c \in clients /\ ws[c] = "OPEN" THEN 1001 ELSE closeCode[c]]
  /\ clients' = {}
  /\ DropSessions(sessions)
  /\ Commit(DropListeners(CleanupAll(Cur, clients), sessions))
  /\ shutdownDone' = TRUE
  /\ UNCHANGED <<cfgVars, pendingTmux, pendingList, ptyRest>>
  /\ UNCHANGED <<nextSession, exited, size, ring, ringBytes, nChunks>>

shutdown ==
  /\ ~procExited
  /\ ~shutdownDone
  /\ ShutdownEffect
  /\ op' = <<"shutdown", Null, Null>>
  /\ UNCHANGED procExited

\* the idle timer's callback: onIdle() = server.shutdown(); process.exit(0)
IdleTimerFires ==
  /\ ~procExited
  /\ idleTimer = "pending"
  /\ ShutdownEffect
  /\ op' = <<"idle_fired", Null, Null>>
  /\ procExited' = TRUE

\* ---- socket events ----
\* the socket starts closing (close frame received): readyState leaves OPEN,
\* the 'close' event comes later
WsClosing(c) ==
  /\ ~procExited
  /\ ws[c] = "OPEN"
  /\ ws' = [ws EXCEPT ![c] = "CLOSING"]
  /\ Commit(Cur)
  /\ op' = <<"ws_closing", c, Null>>
  /\ UNCHANGED <<cfgVars, mgrRest, closeCode, pendingTmux, pendingList, sesRest, ptyRest>>

\* 'error' event: ClientSession runs cleanup(); the socket is closing
WsError(c) ==
  /\ ~procExited
  /\ ws[c] \in {"OPEN", "CLOSING"}
  /\ closeCode[c] # 1013
  /\ ws' = [ws EXCEPT ![c] = "CLOSING"]
  /\ Commit(cleanup(Cur, c))
  /\ op' = <<"ws_error", c, Null>>
  /\ UNCHANGED <<cfgVars, mgrRest, closeCode, pendingTmux, pendingList, sesRest, ptyRest>>

\* 'close' event: ClientSession.cleanup(), then the SessionManager's handler
\* (clients.delete, checkIdle); a socket refused with 1013 has no handlers
WsClose(c) ==
  /\ ~procExited
  /\ ws[c] \in {"OPEN", "CLOSING"}
  /\ ws' = [ws EXCEPT ![c] = "CLOSED"]
  /\ IF closeCode[c] = 1013
       THEN /\ Commit(Cur)
            /\ UNCHANGED <<clients, idleTimer>>
       ELSE /\ Commit(cleanup(Cur, c))
            /\ clients' = clients \ {c}
            /\ idleTimer' = checkIdle(clients', getRunningCount(sessions, exited), idleTimer)
  /\ op' = <<"ws_close", c, Null>>
  /\ UNCHANGED <<cfgVars, shutdownDone, procExited, closeCode, pendingTmux, pendingList,
                 sesRest, ptyRest>>

Next ==
  \/ \E c \in Clients : \E req \in lim.requests : upgrade(c, req)
  \/ \E c \in Clients : ParseError(c)
  \/ \E c \in Clients, d \in CreateDims, ok \in BOOLEAN : handleCreateSession(c, d, ok)
  \/ \E c \in Clients, t \in SessionIds \cup {TmuxTarget}, d \in AttachDims :
        handleAttach(c, t, d)
  \/ \E c \in Clients, sb \in BOOLEAN, ok \in BOOLEAN :
        \E e \in pendingTmux[c] : attachTmux(c, e, sb, ok)
  \/ \E c \in Clients : handleListSessions(c)
  \/ \E c \in Clients : \E e \in pendingList[c] : listSessionsDone(c, e)
  \/ \E c \in Clients : handleInput(c)
  \/ \E c \in Clients, d \in Dims, th \in BOOLEAN : handleResize(c, d, th)
  \/ \E c \in Clients : handleDetach(c)
  \/ \E s \in SessionIds : \E n \in lim.chunkLens : \E t \in ChunkTexts(lim.pieces) :
        ptyOnData(s, n, t)
  \/ \E s \in SessionIds : ptyOnExit(s)
  \/ \E p \in PtyIds : tmuxOnData(p)
  \/ \E p \in PtyIds : tmuxOnExit(p)
  \/ \E s \in SessionIds : remove(s)
  \/ shutdown
  \/ IdleTimerFires
  \/ \E c \in Clients : WsClosing(c)
  \/ \E c \in Clients : WsError(c)
  \/ \E c \in Clients : WsClose(c)

\* ---- specifications: the same program under different budgets ----
\* Spec: one client, one session, one tmux pty, every interleaving of their
\* callbacks to any depth
Init ==
  InitWith(Budget(DeepSlots, DeepSlots, DeepSlots, DeepSlots, DeepSlots, DeepSlots, 0,
                  FewRequests))

Spec == Init /\ [][Next]_vars

\* SpecWide: several clients, sessions and tmux ptys, every interleaving of
\* the first MaxSteps callbacks
InitWide ==
  InitWith(Budget(NumClients, MaxSessions, MaxPtys, MaxChunks, MaxTmuxData,
                  MaxPending, MaxSteps, FewRequests))

SpecWide == InitWide /\ [][Next]_vars

\* SpecGateway: upgrade requests with every token up to MaxTokenLen bytes, in
\* the query or the Authorization header, among the first GatewaySteps
\* callbacks of two sockets and one session
InitGateway ==
  InitWith(Budget(NumClients, DeepSlots, DeepSlots, DeepSlots, DeepSlots, DeepSlots,
                  GatewaySteps, Requests))

SpecGateway == InitGateway /\ [][Next]_vars

\* SpecStatic: the HTTP request handler alone, over every request path of up
\* to MaxPathLen names and every disk of FileSystems
InitStatic ==
  \E files \in FileSystems :
    InitWith([Budget(DeepSlots, DeepSlots, DeepSlots, DeepSlots, DeepSlots, DeepSlots, 0,
                     FewRequests) EXCEPT !.files = files])

NextStatic ==
  \/ httpHealth
  \/ \E raw \in RawPaths : httpGet(raw)

SpecStatic == InitStatic /\ [][NextStatic]_vars

\* SpecRing: the output of one session, RingChunks chunks of 1 to
\* BufferCap + 1 bytes, with the callbacks that create the session, attach to
\* it (the replay) and end it
RingChunkLens == 1 .. (BufferCap + 1)

InitRing ==
  InitWith([Budget(DeepSlots, DeepSlots, DeepSlots, RingChunks, DeepSlots, DeepSlots, 0,
                   {QueryRequest(AuthToken)}) EXCEPT !.chunkLens = RingChunkLens])

NextRing ==
  \/ \E c \in Clients : \E req \in lim.requests : upgrade(c, req)
  \/ \E c \in Clients, d \in CreateDims, ok \in BOOLEAN : handleCreateSession(c, d, ok)
  \/ \E c \in Clients, t \in SessionIds, d \in AttachDims : handleAttach(c, t, d)
  \/ \E s \in SessionIds : \E n \in lim.chunkLens : \E t \in ChunkTexts(lim.pieces) :
        ptyOnData(s, n, t)
  \/ \E s \in SessionIds : ptyOnExit(s)

SpecRing == InitRing /\ [][NextRing]_vars

\* ---- inbound frames: parseClientMessage and handleMessage ----
\* an inbound frame: binary or text; a text frame is invalid JSON, the JSON
\* value null, or an object with a `type`, a `seq` and a `payload` that are
\* absent, ill-typed or well-formed
TextFrame(j, t, q, p) == [binary |-> FALSE, json |-> j, type |-> t, seq |-> q, payload |-> p]

BinaryFrame == [binary |-> TRUE, json |-> "invalid", type |-> "absent", seq |-> "absent",
                payload |-> "absent"]

MessageTypes == {"list_sessions", "create_session", "attach", "input", "resize", "detach"}

\* msg.type: absent, the empty string, a request type or an unknown string
TypeFields == MessageTypes \cup {"absent", "empty", "bogus"}

\* msg.seq: a number, absent, or a string
SeqFields == {"number", "absent", "text"}

\* msg.payload: absent, an object without the fields, or the fields
PayloadFields == {"absent", "empty", "full"}

ClientFrames ==
  {BinaryFrame}
    \cup {TextFrame(j, "absent", "absent", "absent") : j \in {"invalid", "null"}}
    \cup {TextFrame("object", t, q, p) : t \in TypeFields, q \in SeqFields, p \in PayloadFields}

Throws == "throws"

\* a parser that dispatches a frame whatever its seq
parseClientMessage_AnySeq(f) ==
  IF f.json # "object" THEN Throws
  ELSE IF f.type \in {"absent", "empty"} THEN Throws
  ELSE IF f.type \in MessageTypes THEN f.type
  ELSE Throws

\* parseClientMessage: JSON.parse throws on invalid JSON, msg.type throws on
\* null; then the type/seq check and the switch on the type
parseClientMessage(f) ==
  IF f.json # "object" THEN Throws
  ELSE IF f.type \in {"absent", "empty"} \/ f.seq # "number" THEN Throws
  ELSE IF f.type \in MessageTypes THEN f.type
  ELSE Throws

\* the catch of the message handler: error{PARSE_ERROR} with seq 0
catchError(c, f) ==
  /\ Arrives(c)
  /\ Commit(sendError(Cur, c, 0, "PARSE_ERROR"))
  /\ op' = <<"parse_error", c, f>>
  /\ UNCHANGED <<cfgVars, mgrRest, ws, closeCode, pendingTmux, pendingList, sesRest, ptyRest>>

\* the promise of the async handleAttach rejects (target.startsWith on
\* undefined) and nothing handles it: Node >= 18 terminates the process
unhandledRejection(c) ==
  /\ Arrives(c)
  /\ Commit(Cur)
  /\ procExited' = TRUE
  /\ op' = <<"unhandled_rejection", c, Null>>
  /\ UNCHANGED <<cfgVars, clients, idleTimer, shutdownDone, ws, closeCode,
                 pendingTmux, pendingList, sesRest, ptyRest>>

NoDims == <<Undefined, Undefined>>

\* handleMessage: msg.payload.x throws when the payload is absent; a payload
\* without the fields passes undefined to the handler
handleMessage(c, f) ==
  CASE f.type = "list_sessions" -> handleListSessions(c)
    [] f.type = "detach" -> handleDetach(c)
    [] f.type = "create_session" ->
         IF f.payload = "absent" THEN catchError(c, f)
         ELSE IF f.payload = "empty"
           THEN \E ok \in BOOLEAN : handleCreateSession(c, NoDims, ok)
         ELSE \E d \in CreateDims, ok \in BOOLEAN : handleCreateSession(c, d, ok)
    [] f.type = "attach" ->
         IF f.payload = "absent" THEN catchError(c, f)
         ELSE IF f.payload = "empty"
           THEN IF state[c] = "ATTACHED"
                  THEN handleAttach(c, Null, NoDims)
                  ELSE unhandledRejection(c)
         ELSE \E t \in SessionIds \cup {TmuxTarget}, d \in AttachDims : handleAttach(c, t, d)
    [] f.type = "input" ->
         IF f.payload = "absent" THEN catchError(c, f)
         ELSE IF /\ f.payload = "empty"
                 /\ state[c] = "ATTACHED"
                 /\ \/ attachedSession[c] # Null /\ ~exited[attachedSession[c]]
                    \/ attachedSession[c] = Null /\ tmuxPty[c] # Null
           THEN \* ptyProcess.write(undefined) throws in the socket's write
                catchError(c, f)
         ELSE handleInput(c)
    [] f.type = "resize" ->
         IF f.payload = "absent" THEN catchError(c, f)
         ELSE IF f.payload = "empty"
           THEN \E th \in BOOLEAN : handleResize(c, NoDims, th)
         ELSE \E d \in Dims, th \in BOOLEAN : handleResize(c, d, th)

\* a binary frame is dropped by the message handler
ignoreBinary(c, f) ==
  /\ Arrives(c)
  /\ Commit(Cur)
  /\ op' = <<"binary_ignored", c, f>>
  /\ UNCHANGED <<cfgVars, mgrRest, ws, closeCode, pendingTmux, pendingList, sesRest, ptyRest>>

\* ws.on("message"): binary frames are ignored, a frame the parser rejects
\* is answered in the catch, every other frame is dispatched
onMessage(c, f) ==
  IF f.binary THEN ignoreBinary(c, f)
  ELSE IF parseClientMessage(f) = Throws THEN catchError(c, f)
  ELSE handleMessage(c, f)

\* SpecFrames: every inbound frame on the connections of two clients, with
\* the continuations and PTY events that follow, for the first FrameSteps
\* callbacks
InitFrames ==
  InitWith(Budget(NumClients, DeepSlots, DeepSlots, DeepSlots, DeepSlots, DeepSlots,
                  FrameSteps, {QueryRequest(AuthToken)}))

NextFrames ==
  \/ \E c \in Clients : \E req \in lim.requests : upgrade(c, req)
  \/ \E c \in Clients : \E f \in ClientFrames : onMessage(c, f)
  \/ \E c \in Clients, sb \in BOOLEAN, ok \in BOOLEAN :
        \E e \in pendingTmux[c] : attachTmux(c, e, sb, ok)
  \/ \E c \in Clients : \E e \in pendingList[c] : listSessionsDone(c, e)
  \/ \E s \in SessionIds : ptyOnExit(s)

SpecFrames == InitFrames /\ [][NextFrames]_vars

\* ---- ManagedSessionStore.create with the `id` option ----
\* store.create({id, ...}) called with an id an earlier session was
\* constructed with: new ManagedSession takes opts.id as it is and
\* sessions.set(session.id, session) overwrites the entry of that key
storeCreate(id, dims) ==
  /\ ~procExited
  /\ id \in 1 .. nextSession
  /\ sessions' = sessions \cup {id}
  /\ exited' = [exited EXCEPT ![id] = FALSE]
  /\ killed' = [killed EXCEPT ![id] = FALSE]
  /\ size' = [size EXCEPT ![id] = dims]
  /\ ring' = [ring EXCEPT ![id] = <<>>]
  /\ ringBytes' = [ringBytes EXCEPT ![id] = 0]
  /\ storeL' = [storeL EXCEPT ![id] = TRUE]
  /\ idleTimer' = cancelIdleTimer(idleTimer)
  /\ Commit([Cur EXCEPT !.sig = createEmits(TRUE), !.name[id] = SessionName,
                        !.pushed[id] = <<>>,
                        !.dataL[id] = <<>>, !.exitL[id] = <<>>, !.resizeL[id] = <<>>,
                        !.attc[id] = {}])
  /\ op' = <<"store_create", Null, id>>
  /\ UNCHANGED <<cfgVars, clients, shutdownDone, procExited, cliRest, ptyRest,
                 nextSession, nChunks>>

\* SpecStore: the store's operations, with generated and supplied ids
InitStore ==
  InitWith(Budget(DeepSlots, MaxSessions, DeepSlots, MaxChunks, DeepSlots, DeepSlots, 0,
                  {QueryRequest(AuthToken)}))

NextStore ==
  \/ \E c \in Clients : \E req \in lim.requests : upgrade(c, req)
  \/ \E c \in Clients, d \in CreateDims, ok \in BOOLEAN : handleCreateSession(c, d, ok)
  \/ \E s \in SessionIds, d \in CreateDims : storeCreate(s, d)
  \/ \E s \in SessionIds : \E n \in lim.chunkLens : \E t \in ChunkTexts(lim.pieces) :
        ptyOnData(s, n, t)
  \/ \E s \in SessionIds : ptyOnExit(s)
  \/ \E s \in SessionIds : remove(s)

SpecStore == InitStore /\ [][NextStore]_vars

\* SpecTitle: one session and MaxChunks chunks of every text
InitTitle ==
  InitWith([Budget(DeepSlots, DeepSlots, DeepSlots, MaxChunks, DeepSlots, DeepSlots, 0,
                   {QueryRequest(AuthToken)})
              EXCEPT !.pieces = MaxPieces, !.chunkLens = {1}])

NextTitle ==
  \/ \E c \in Clients : \E req \in lim.requests : upgrade(c, req)
  \/ \E c \in Clients, d \in CreateDims, ok \in BOOLEAN : handleCreateSession(c, d, ok)
  \/ \E s \in SessionIds : \E n \in lim.chunkLens : \E t \in ChunkTexts(lim.pieces) :
        ptyOnData(s, n, t)
  \/ \E s \in SessionIds : ptyOnExit(s)

SpecTitle == InitTitle /\ [][NextTitle]_vars

\* ---- the claims ----
\* c is registered in the attached-client set of the session it references
Registered(c) ==
  attachedSession[c] # Null /\ c \in attachedClients[attachedSession[c]]

\* the data/exit/resize listeners of client c on session s
ListenersOf(c, s) ==
  {<<"data", i>> : i \in {j \in 1 .. Len(dataL[s]) : dataL[s][j][1] = c}}
    \cup {<<"exit", i>> : i \in {j \in 1 .. Len(exitL[s]) : exitL[s][j][1] = c}}
    \cup {<<"resize", i>> : i \in {j \in 1 .. Len(resizeL[s]) : resizeL[s][j][1] = c}}

\* the managed subscription sets (one data, exit and resize listener each) of c
SubscriptionSets(c) ==
  {<<s, i>> \in SessionIds \X (1 .. (3 * MaxSessions + 1)) :
     i <= Len(exitL[s]) /\ exitL[s][i][1] = c}

BinaryFrames(frames) == SelectSeq(frames, LAMBDA f : f.type = "binary")

SessionExitPush == Json("detached", 0, "session_exit", Null, <<0, 0>>)

Running == getRunningCount(sessions, exited)

IdleEmissions(sig) == Cardinality({i \in 1 .. Len(sig) : sig[i] = "idle"})

\* C1: a ClientSession is ATTACHED iff it holds a non-null attached session
\* reference and is in that session's attached-client set; stated here for
\* the clients that hold no tmux attach pty (a tmux attachment has no
\* attached-client set to be registered in)
C1_AttachedIffRegistered ==
  \A c \in Clients :
    tmuxPty[c] = Null => ((state[c] = "ATTACHED") <=> Registered(c))

\* C2: at a managed attach the replay frame is the ring content of that
\* instant and precedes the reply, and every chunk the session (still in the
\* store) emits while the client is attached reaches the client's open socket
\* exactly once
C2_ReplayThenExactlyOnce ==
  [][\A c \in Clients :
       /\ (op'[1] = "attach" /\ op'[2] = c) =>
            LET s == op'[3] IN
            BinaryFrames(out'[c]) =
              IF ring[s] = <<>> THEN <<>> ELSE <<Binary("managed", s, ring[s])>>
       /\ (op'[1] = "pty_data" /\ op'[3] \in sessions /\ state[c] = "ATTACHED"
             /\ attachedSession[c] = op'[3] /\ ws[c] = "OPEN") =>
            LET s == op'[3]
                chunk == ring'[s][Len(ring'[s])]
                live == SelectSeq(out'[c],
                          LAMBDA f : f = Binary("managed", s, <<chunk>>))
            IN Len(live) = 1
    ]_vars

\* C3: while a client with an open socket stays attached to managed session
\* S, the binary frames written to it are exactly the chunks S emits, one
\* frame per chunk, in order, nothing else in between
C3_LiveFramesAreTheChunks ==
  [][\A c \in Clients :
       (/\ state[c] = "ATTACHED" /\ attachedSession[c] # Null
        /\ state'[c] = "ATTACHED" /\ attachedSession'[c] = attachedSession[c]
        /\ ws[c] = "OPEN") =>
         LET s == attachedSession[c] IN
         BinaryFrames(out'[c]) =
           IF op'[1] = "pty_data" /\ op'[3] = s
             THEN <<Binary("managed", s, <<ring'[s][Len(ring'[s])]>>)>>
             ELSE <<>>
    ]_vars

\* C4: whenever an idle timer is pending (from its arming to its firing) the
\* manager has no client and the store no running session; the idle callback
\* is that timer's callback
C4_TimerPendingOnlyWhenIdle ==
  idleTimer = "pending" => (clients = {} /\ Running = 0)

C4_Witness == op[1] = "idle_fired" /\ procExited

C7_IdleOnlyOnLastNaturalExit ==
  [][IdleEmissions(signals') =
       IF op'[1] = "pty_exit" /\ op'[3] \in sessions
            /\ getRunningCount(sessions, exited) = 1
            /\ getRunningCount(sessions', exited') = 0
         THEN 1 ELSE 0]_vars

\* the second of two sessions exits last
C7_Witness ==
  /\ op[1] = "pty_exit" /\ signals = <<"idle">>
  /\ nextSession = 2 /\ sessions = {1, 2}

\* C8: once the socket of an admitted client has closed, the client has no
\* subscription on any session, is in no attached set, holds no tmux attach
\* pty, is not in the manager's map, and no frame is written to the socket
C8_ClosedClientIsGone ==
  \A c \in Clients :
    (ws[c] = "CLOSED" /\ closeCode[c] # 1013) =>
      /\ \A s \in SessionIds : ListenersOf(c, s) = {} /\ c \notin attachedClients[s]
      /\ tmuxPty[c] = Null
      /\ \A p \in PtyIds : (ptyOwner[p] = c /\ ptyState[p] = "alive") => ptyDetached[p]
      /\ c \notin clients
      /\ out[c] = <<>>

\* C9: when the child of a managed session exits, every client ATTACHED to
\* that session ends in BROWSING with no attached reference, out of the
\* attached set, unsubscribed, and with exactly one detached{session_exit}
\* push of seq 0 on its open socket
C9_ExitDetachesEveryClient ==
  [][\A c \in Clients :
       (op'[1] = "pty_exit" /\ state[c] = "ATTACHED"
          /\ attachedSession[c] = op'[3]) =>
         LET s == op'[3] IN
         /\ state'[c] = "BROWSING"
         /\ attachedSession'[c] = Null
         /\ c \notin attachedClients'[s]
         /\ \A i \in 1 .. Len(exitL'[s]) : exitL'[s][i][1] # c
         /\ \A i \in 1 .. Len(dataL'[s]) : dataL'[s][i][1] # c
         /\ ws[c] = "OPEN" => out'[c] = <<SessionExitPush>>
    ]_vars

\* C10: a client holds at most one attachment: one managed subscription set
\* or one tmux attach pty
C10_AtMostOneAttachment ==
  \A c \in Clients :
    Cardinality(SubscriptionSets(c)) + (IF tmuxPty[c] # Null THEN 1 ELSE 0) <= 1

\* the callbacks that evaluate a request frame of a client
RequestOps ==
  {"create_session", "create_failed", "list_await", "attach", "attach_refused",
   "attach_tmux_await", "input", "resize", "detach"}

\* C11: when a request of a client is evaluated no earlier attach of that
\* client is still suspended (its state change and reply are complete), and
\* the events of a tmux attach pty that is not the client's current
\* attachment write nothing to the client and leave its state alone
C11_RequestsTakeEffectInOrder ==
  [][\A c \in Clients :
       /\ (op'[1] \in RequestOps /\ op'[2] = c) => pendingTmux[c] = {}
       /\ (op'[1] \in {"tmux_data", "tmux_exit"} /\ op'[2] = c /\ tmuxPty[c] # op'[3]) =>
            (out'[c] = <<>> /\ state'[c] = state[c] /\ tmuxPty'[c] = tmuxPty[c])
    ]_vars

\* C12: a callback that answers a request with an `error` frame changes no
\* client's state, attached reference (managed or tmux) or subscriptions, no
\* session's attached set or size, and not the contents of the store
C12_ErrorsChangeNothing ==
  [][(\E c \in Clients : \E i \in 1 .. Len(out'[c]) : out'[c][i].type = "error")
       => UNCHANGED <<state, attachedSession, tmuxPty, lsn, dataL, exitL, resizeL,
                      attachedClients, size, sessions>>]_vars

\* C13: the manager never holds more than maxClients ClientSessions; a socket
\* handed to addClient is refused exactly when the count has reached
\* maxClients, and a refused socket is closed with 1013, gets no frame, is
\* not registered and changes nothing else
C13_ClientCap ==
  [][/\ Cardinality(clients') <= maxClients
     /\ op'[1] \in {"addClient", "addClient_refused"} =>
          LET c == op'[2] IN
          IF Cardinality(clients) >= maxClients
            THEN /\ op'[1] = "addClient_refused"
                 /\ clients' = clients
                 /\ closeCode'[c] = 1013 /\ ws'[c] = "CLOSING"
                 /\ \A x \in Clients : out'[x] = <<>>
                 /\ UNCHANGED <<state, attachedSession, tmuxPty, idleTimer, sessions,
                                exited, size, ring, attachedClients, dataL, exitL, resizeL>>
            ELSE /\ op'[1] = "addClient"
                 /\ clients' = clients \cup {c}
                 /\ ws'[c] = "OPEN"
    ]_vars

\* a socket was refused while the manager held maxClients clients
C13_Witness ==
  /\ op[1] = "addClient_refused"
  /\ Cardinality(clients) = maxClients
  /\ closeCode[op[2]] = 1013 /\ op[2] \notin clients

\* the token a request supplies: its non-empty `token` query parameter, else
\* the credential of its `Authorization: Bearer` header, else none
SuppliedToken(req) ==
  IF req.query.has /\ req.query.tok # <<>> THEN req.query
  ELSE IF req.scheme = "Bearer" THEN Token(req.cred)
  ELSE NoToken

\* C14: an upgrade request is handed to SessionManager.addClient iff the
\* token it supplies (the non-empty `token` query parameter, else the Bearer
\* credential) equals the configured token byte for byte; every other request
\* is answered 401, its socket is dropped, and the client map, the clients and
\* the sessions stay as they were
C14_UpgradeIffTokenMatches ==
  [][\A c \in Clients : \A req \in Requests :
       (op'[1] \in {"addClient", "addClient_refused", "upgrade_401"} /\ op'[2] = c
          /\ upgrade(c, req)) =>
         LET t == SuppliedToken(req) IN
         IF t.has /\ t.tok = AuthToken
           THEN op'[1] \in {"addClient", "addClient_refused"} /\ ws'[c] # "NONE"
           ELSE /\ op'[1] = "upgrade_401"
                /\ ws'[c] = "NONE" /\ c \notin clients'
                /\ \A x \in Clients : out'[x] = <<>>
                /\ UNCHANGED <<clients, idleTimer, closeCode, state, attachedSession,
                               tmuxPty, sessions, exited, size, ring, attachedClients,
                               dataL, exitL, resizeL>>
    ]_vars

\* a token that continues the configured one was rejected while a client was
\* attached
C14_Witness ==
  /\ op[1] = "upgrade_401"
  /\ op[3] = Token(Append(AuthToken, Head(AuthToken)))
  /\ \E c \in clients : state[c] = "ATTACHED"

\* the path lies in the web root directory (or is the web root)
InsideWebRoot(path) ==
  Len(path) >= Len(WebRoot) /\ SubSeq(path, 1, Len(WebRoot)) = WebRoot

\* C15: a static GET is never answered with the content of a file outside the
\* web root directory, and a request whose path resolves outside the web root
\* is answered 403
C15_NoFileOutsideWebRoot ==
  op[1] = "http_get" =>
    LET resolved == resolve(WebRoot, relPath(op[2]))
        status == op[3][1]
        served == op[3][2]
    IN /\ status = 200 => InsideWebRoot(served)
       /\ ~InsideWebRoot(resolved) => status = 403

\* C16: a callback writes binary frames to a client only if it leaves that
\* client in state ATTACHED (an accepted attach sends its replay after the
\* state change; data arrives while the client is attached)
C16_BinaryOnlyWhileAttached ==
  [][\A c \in Clients :
       BinaryFrames(out'[c]) # <<>> => (state'[c] = "ATTACHED")]_vars

\* the frames that are pushed without a request, and the PARSE_ERROR reply
Unsolicited(f) ==
  \/ f.type = "resized"
  \/ f.type = "detached" /\ f.code = "session_exit"
  \/ f.type = "session_removed"
  \/ f.type = "error" /\ f.code = "PARSE_ERROR"

\* C17: every JSON frame a callback writes is either unsolicited (`resized`,
\* `detached{session_exit}`, `session_removed`) or a PARSE_ERROR and carries
\* seq 0, or it goes to the client whose request the callback serves and
\* carries that request's seq (for a request that was suspended at an await:
\* the seq it arrived with)
C17_RepliesCarryRequestSeq ==
  [][\A x \in Clients : \A i \in 1 .. Len(out'[x]) :
       LET f == out'[x][i] IN
       f.type # "binary" =>
         IF Unsolicited(f) THEN f.seq = 0
         ELSE /\ op'[2] = x
              /\ f.seq =
                   IF op'[1] \in {"attach_tmux", "attach_tmux_failed"}
                     THEN (CHOOSE e \in pendingTmux[x] : e \notin pendingTmux'[x])[1]
                   ELSE IF op'[1] = "list_sessions"
                     THEN (CHOOSE e \in pendingList[x] : e \notin pendingList'[x])[1]
                   ELSE ReqSeq(x)
    ]_vars

\* a tmux attach that arrived with seq 2 while a list_sessions request (seq 1)
\* was suspended is answered, after its own await, with seq 2
C17_Witness ==
  \E c \in Clients :
    /\ op[1] = "attach_tmux" /\ op[2] = c
    /\ out[c] # <<>>
    /\ out[c][Len(out[c])].type = "attached" /\ out[c][Len(out[c])].seq = 2
    /\ pendingList[c] # {}

\* C18: a write or resize on a session whose child has exited forwards
\* nothing to the PTY, leaves the session's (cols, rows) unchanged and emits
\* no `resize` signal, whatever its arguments
C18_NoEffectAfterExit ==
  [][\A c \in Clients :
       (op'[1] \in {"input", "resize"} /\ op'[2] = c /\ state[c] = "ATTACHED"
          /\ attachedSession[c] # Null /\ exited[attachedSession[c]]) =>
         LET s == attachedSession[c] IN
         /\ s \notin written'
         /\ size'[s] = size[s]
         /\ signals' = <<>>
    ]_vars

\* C19: once kill() has returned (store.remove, store.shutdown) or the child
\* has exited by itself, hasExited() is true and getStatus() is "exited", and
\* an input or resize for that session forwards nothing to the PTY, changes
\* no size and emits no signal
C19_KilledCountsAsExited ==
  [][\A s \in SessionIds :
       /\ (killed'[s] \/ (op'[1] = "pty_exit" /\ op'[3] = s)) => exited'[s]
       /\ \A c \in Clients :
            (op'[1] \in {"input", "resize"} /\ op'[2] = c /\ state[c] = "ATTACHED"
               /\ attachedSession[c] = s /\ (killed[s] \/ exited[s])) =>
              (s \notin written' /\ size'[s] = size[s] /\ signals' = <<>>)
    ]_vars

\* x > 0 in JavaScript: false when x is undefined
GtZero(x) == x # Undefined /\ x > 0

\* C20: session.resize(c, r) sets the size to (c, r) and emits one `resize`
\* signal iff c > 0, r > 0 and (c, r) is not the current size; in every other
\* case the size stays and no signal is emitted
C20_ResizeIffValidAndNew ==
  [][\A c \in Clients :
       (op'[1] = "resize" /\ op'[2] = c /\ state[c] = "ATTACHED"
          /\ attachedSession[c] # Null) =>
         LET s == attachedSession[c]
             dims == op'[3]
         IN IF GtZero(dims[1]) /\ GtZero(dims[2]) /\ dims # size[s]
              THEN size'[s] = dims /\ signals' = <<"resize">>
              ELSE size'[s] = size[s] /\ signals' = <<>>
    ]_vars

\* C21: every session that was created has cols >= 1 and rows >= 1
C21_DimsAtLeastOne ==
  \A s \in SessionIds :
    s <= nextSession =>
      /\ size[s][1] # Undefined /\ size[s][1] >= 1
      /\ size[s][2] # Undefined /\ size[s][2] >= 1

RECURSIVE SumByteLen(_)
SumByteLen(chunks) ==
  IF chunks = <<>> THEN 0 ELSE ByteLen(Head(chunks)) + SumByteLen(Tail(chunks))

\* C22: the tracked byte count of every ring is the sum of the byte lengths
\* of the chunks it holds, and it is at most the cap unless the ring holds
\* exactly one chunk
C22_RingByteCount ==
  \A s \in SessionIds :
    /\ ringBytes[s] = SumByteLen(ring[s])
    /\ ringBytes[s] <= BufferCap \/ Len(ring[s]) = 1

\* after an eviction the ring holds one chunk that is larger than the cap
C22_Witness ==
  \E s \in SessionIds :
    /\ op[1] = "pty_data" /\ op[3] = s
    /\ nChunks >= 3 /\ Len(ring[s]) = 1 /\ ringBytes[s] > BufferCap

\* C23: when a resize request of an ATTACHED client changes the size of its
\* managed session, every client attached to that session (the requester
\* included) gets exactly one `resized` push of seq 0 with the new size on
\* its open socket, and the new size is the session's size
C23_ResizeReachesEveryAttached ==
  [][\A c \in Clients :
       (op'[1] = "resize" /\ op'[2] = c /\ state[c] = "ATTACHED"
          /\ attachedSession[c] # Null
          /\ size'[attachedSession[c]] # size[attachedSession[c]]) =>
         LET s == attachedSession[c] IN
         /\ size'[s] = op'[3]
         /\ \A x \in Clients :
              (state[x] = "ATTACHED" /\ attachedSession[x] = s /\ ws[x] = "OPEN") =>
                out'[x] = <<Json("resized", 0, "", Null, size'[s])>>
    ]_vars

\* C24: an attach (accepted or refused) and a detach change no session's
\* (cols, rows) and push no `resized` frame to anyone, and the `attached`
\* reply of a managed attach reports the session's size
C24_AttachDetachKeepSize ==
  [][op'[1] \in {"attach", "attach_refused", "detach"} =>
       /\ size' = size
       /\ \A x \in Clients : \A i \in 1 .. Len(out'[x]) : out'[x][i].type # "resized"
       /\ op'[1] = "attach" =>
            LET c == op'[2]
                reply == out'[c][Len(out'[c])]
            IN /\ reply.type = "attached"
               /\ <<reply.cols, reply.rows>> = size[op'[3]]
    ]_vars

\* a second client joined a session of size (1, 1) that another client is
\* attached to (no attach asks for that size) and was told (1, 1)
C24_Witness ==
  \E c \in Clients :
    /\ op[1] = "attach" /\ op[2] = c
    /\ size[op[3]] = <<1, 1>>
    /\ attachedClients[op[3]] = Clients
    /\ out[c] # <<>> /\ out[c][Len(out[c])].cols = 1

\* C25: when SessionManager.shutdown() returns (called directly or by the
\* idle callback), every socket of the client map has left OPEN, those that
\* were open closed with 1001, the map is empty, no ClientSession is ATTACHED
\* or holds an attachment, no session has a subscriber or an attached client,
\* and the store is empty; on a store that was already shut down it changes
\* nothing
C25_ShutdownLeavesNothing ==
  [][op'[1] \in {"shutdown", "idle_fired"} =>
       /\ \A c \in clients : ws'[c] # "OPEN" /\ (ws[c] = "OPEN" => closeCode'[c] = 1001)
       /\ clients' = {}
       /\ \A c \in Clients :
            state'[c] = "BROWSING" /\ attachedSession'[c] = Null /\ tmuxPty'[c] = Null
       /\ \A s \in SessionIds :
            /\ dataL'[s] = <<>> /\ exitL'[s] = <<>> /\ resizeL'[s] = <<>>
            /\ attachedClients'[s] = {}
       /\ sessions' = {}
       /\ shutdownDone =>
            UNCHANGED <<sessions, exited, killed, size, ring, dataL, exitL, resizeL>>
    ]_vars

\* C26: after SessionManager.shutdown() (called directly or by the idle
\* callback) no idle timer is pending, whether or not one was pending before
\* and whatever the client and session counts
C26_ShutdownCancelsTimer ==
  [][op'[1] \in {"shutdown", "idle_fired"} => idleTimer' = "none"]_vars

\* shutdown() was called on an idle server: the only clients had left, no
\* session was ever created, so the 5 s timer was pending at the call
C26_Witness ==
  /\ op[1] = "shutdown" /\ idleTimer = "none"
  /\ nextSession = 0
  /\ \A c \in Clients : ws[c] \in {"NONE", "CLOSED"}
  /\ \E c \in Clients : ws[c] = "CLOSED" /\ closeCode[c] # 1013

C28_ExitEmitsSessionRemoved ==
  [][(op'[1] = "pty_exit" /\ \E s \in sessions : op'[3] = s)
       => \E i \in 1 .. Len(signals') : signals'[i] = "session_removed"]_vars

\* C29: in every callback in which a session leaves the store, every client
\* that is connected when the callback returns has been sent a
\* `session_removed` push with seq 0 and that session's id
C29_RemovalIsPushed ==
  [][\A s \in sessions :
       s \notin sessions' =>
         \A c \in clients' :
           ws'[c] = "OPEN" =>
             \E i \in 1 .. Len(out'[c]) :
               /\ out'[c][i].type = "session_removed"
               /\ out'[c][i].seq = 0
               /\ out'[c][i].sid = s]_vars

\* C30: an input, resize or detach request that arrives while the client is
\* BROWSING is answered with one error frame NOT_ATTACHED carrying the
\* request's seq; nothing is written to a PTY, no PTY is resized, no size
\* changes and the client stays BROWSING
C30_NotAttachedWhileBrowsing ==
  [][op'[1] \in {"input", "resize", "detach"} =>
       \A c \in Clients :
         (op'[2] = c /\ state[c] = "BROWSING") =>
           /\ out'[c] = <<ErrorFrame(ReqSeq(c), "NOT_ATTACHED")>>
           /\ \A d \in Clients \ {c} : out'[d] = <<>>
           /\ written' = {}
           /\ size' = size
           /\ signals' = <<>>
           /\ state'[c] = "BROWSING"
    ]_vars

\* a browsing client with another request in flight is refused under seq 2
C30_Witness ==
  /\ op[1] \in {"input", "detach"}
  /\ \E c \in Clients :
       /\ op[2] = c /\ state[c] = "BROWSING"
       /\ out[c] = <<ErrorFrame(2, "NOT_ATTACHED")>>

\* C31: an attach by a client that is not ATTACHED to a managed id absent from
\* the store is answered SESSION_NOT_FOUND, and to a session of the store
\* whose child has exited SESSION_EXITED, each with the request's seq; the
\* client's state, the attached sets and the listeners stay as they were, and
\* no callback adds a client to the attached set of a session that is absent
\* or exited
C31_AttachToAbsentOrExited ==
  [][/\ op'[1] \in {"attach", "attach_refused"} =>
          \A c \in Clients :
            \A t \in SessionIds :
              (op'[2] = c /\ op'[3] = t /\ state[c] # "ATTACHED"
                 /\ (t \notin sessions \/ exited[t])) =>
                /\ out'[c] = <<ErrorFrame(ReqSeq(c),
                                 IF t \notin sessions THEN "SESSION_NOT_FOUND"
                                                      ELSE "SESSION_EXITED")>>
                /\ state'[c] = state[c]
                /\ attachedSession'[c] = attachedSession[c]
                /\ UNCHANGED <<attachedClients, dataL, exitL, resizeL>>
     /\ \A s \in SessionIds :
          \A c \in attachedClients'[s] \ attachedClients[s] :
            s \in sessions /\ ~exited[s]
    ]_vars

\* an attach to a session that is still in the store, its child exited
C31_Witness ==
  /\ op[1] = "attach_refused"
  /\ \E c \in Clients :
       /\ op[2] = c /\ state[c] = "BROWSING"
       /\ out[c] # <<>> /\ out[c][1].code = "SESSION_EXITED"
       /\ \E s \in sessions : op[3] = s /\ exited[s] /\ attachedClients[s] = {}

\* C32: when the spawn fails in create_session the client is sent
\* error{CREATE_FAILED} with the request's seq and nothing else, the store
\* and the next id are as before, no signal is emitted and the idle timer is
\* as it was
C32_CreateFailedChangesNothing ==
  [][op'[1] = "create_failed" =>
       \A c \in Clients :
         op'[2] = c =>
           /\ out'[c] = <<ErrorFrame(ReqSeq(c), "CREATE_FAILED")>>
           /\ \A d \in Clients \ {c} : out'[d] = <<>>
           /\ signals' = <<>>
           /\ UNCHANGED <<sessions, nextSession, exited, size, storeL, idleTimer,
                          state, attachedSession, attachedClients>>
    ]_vars

\* the spawn fails for a client that has another request in flight, with a
\* session already in the store
C32_Witness ==
  /\ op[1] = "create_failed"
  /\ sessions # {}
  /\ \E c \in Clients : op[2] = c /\ out[c] = <<ErrorFrame(2, "CREATE_FAILED")>>

\* a text frame that is not valid JSON (or not an object), has no type, has a
\* missing or non-numeric seq, or has an unknown type
Malformed(f) ==
  /\ ~f.binary
  /\ \/ f.json # "object"
     \/ f.type \in {"absent", "empty", "bogus"}
     \/ f.seq # "number"

\* C33: a malformed text frame is answered with exactly one
\* error{PARSE_ERROR} frame with seq 0 to its sender; no handler runs (no
\* request is suspended, nothing is created, attached, written or resized)
\* and the client's state is unchanged, whether BROWSING or ATTACHED
C33_MalformedFrameIsParseError ==
  [][\A c \in Clients :
       op'[2] = c =>
         \A f \in ClientFrames :
           (Malformed(f) /\ onMessage(c, f)) =>
             /\ op'[1] = "parse_error"
             /\ out'[c] = <<ErrorFrame(0, "PARSE_ERROR")>>
             /\ \A d \in Clients \ {c} : out'[d] = <<>>
             /\ written' = {} /\ signals' = <<>>
             /\ UNCHANGED <<state, attachedSession, tmuxPty, lsn, pendingTmux, pendingList,
                            sessions, nextSession, exited, size, attachedClients,
                            dataL, exitL, resizeL, clients, idleTimer, procExited>>
    ]_vars

\* an attach frame without a seq arrives on an ATTACHED client
C33_Witness ==
  /\ op[1] = "parse_error"
  /\ \E c \in Clients :
       /\ op[2] = c /\ state[c] = "ATTACHED"
       /\ op[3].type = "attach" /\ op[3].seq = "absent" /\ op[3].payload = "full"
       /\ out[c] = <<ErrorFrame(0, "PARSE_ERROR")>>

\* C34: whatever frame arrives on a connection, the process keeps running
\* and every other client keeps its socket, its state and its attachment
C34_FramesStayInsideConnection ==
  [][\A c \in Clients :
       op'[2] = c =>
         \A f \in ClientFrames :
           onMessage(c, f) =>
             /\ ~procExited'
             /\ \A d \in Clients \ {c} :
                  /\ ws'[d] = ws[d] /\ state'[d] = state[d]
                  /\ attachedSession'[d] = attachedSession[d] /\ tmuxPty'[d] = tmuxPty[d]
    ]_vars

\* C35: store.remove(id) of a session in the store returns true and deletes
\* that session and no other; of an absent id (one removed before included)
\* it returns false and changes nothing; the running count afterwards is the
\* count before less the removed session if its child had not exited
C35_RemoveExactlyThatSession ==
  [][op'[1] \in {"remove", "remove_absent"} =>
       \A s \in SessionIds :
         op'[3] = s =>
           /\ s \in sessions =>
                /\ op'[1] = "remove"
                /\ sessions' = sessions \ {s}
                /\ getRunningCount(sessions', exited') =
                     Running - (IF exited[s] THEN 0 ELSE 1)
           /\ s \notin sessions =>
                /\ op'[1] = "remove_absent"
                /\ UNCHANGED <<sessions, exited, killed, size, ring, ringBytes,
                               attachedClients, dataL, exitL, resizeL, storeL>>
                /\ getRunningCount(sessions', exited') = Running
           /\ \A x \in SessionIds \ {s} :
                /\ exited'[x] = exited[x] /\ size'[x] = size[x] /\ ring'[x] = ring[x]
                /\ dataL'[x] = dataL[x] /\ exitL'[x] = exitL[x] /\ resizeL'[x] = resizeL[x]
    ]_vars

\* one of two running sessions is removed, the other stays
C35_Witness ==
  /\ op[1] = "remove"
  /\ \E s \in SessionIds :
       /\ op[3] = s /\ s \notin sessions /\ killed[s]
       /\ \E x \in sessions : x # s /\ ~exited[x]
  /\ Running = 1

\* C36: every store.create, with a generated or a supplied id, uses an id no
\* earlier session was constructed with, and never an id that is a key of
\* the store's map
C36_IdsNeverReused ==
  [][op'[1] \in {"create_session", "store_create"} =>
       \A s \in SessionIds :
         op'[3] = s => (s > nextSession /\ s \notin sessions)]_vars

\* the OSC 0 / OSC 2 title sequences of a text, by position
TitleSequences(text) ==
  {i \in 1 .. Len(text) : text[i].code \in {0, 2} /\ text[i].term \in {"BEL", "ST"}}

\* C37: for every chunk, the name is updated and `title` is
\* emitted, after the push and before `data`, iff the chunk contains an OSC 0
\* or OSC 2 title sequence whose title differs from the current name
C37_TitleIffSequenceDiffers ==
  [][op'[1] = "pty_data" =>
       \A s \in SessionIds :
         op'[3] = s =>
           LET text == op'[4]
               differing == {i \in TitleSequences(text) : text[i].title # name[s]}
           IN /\ ring'[s] # <<>> /\ ring'[s][Len(ring'[s])][1] = nChunks'
              /\ IF differing # {}
                   THEN /\ signals' = <<"title", "data">>
                        /\ \E i \in differing : name'[s] = text[i].title
                   ELSE /\ signals' = <<"data">>
                        /\ name'[s] = name[s]
    ]_vars

\* the last k chunks of a sequence
Suffix(chunks, k) == SubSeq(chunks, Len(chunks) - k + 1, Len(chunks))

\* the longest suffix whose byte length is at most the cap, or the last chunk
\* alone when it exceeds the cap
ExpectedRing(chunks, cap) ==
  LET fits == {k \in 0 .. Len(chunks) : SumByteLen(Suffix(chunks, k)) <= cap}
      longest == CHOOSE k \in fits : \A j \in fits : j <= k
  IN IF chunks # <<>> /\ longest = 0 THEN Suffix(chunks, 1) ELSE Suffix(chunks, longest)

\* C38: after every sequence of pushes the ring holds, and buffered output
\* concatenates in push order, the longest suffix of the pushed chunks whose
\* byte length is at most the cap, or the last chunk alone when that chunk
\* exceeds the cap
C38_RingIsLongestFittingSuffix ==
  \A s \in SessionIds :
    /\ ring[s] = ExpectedRing(pushed[s], BufferCap)
    /\ getBufferedOutput(s) = Join(ExpectedRing(pushed[s], BufferCap))
    /\ pushed[s] # <<>> => (ring[s] # <<>> /\ ring[s][Len(ring[s])] = pushed[s][Len(pushed[s])])

\* one push evicted the two chunks before it
C38_Witness ==
  \E s \in SessionIds :
    /\ op[1] = "pty_data" /\ op[3] = s
    /\ Len(pushed[s]) = 3
    /\ ByteLen(pushed[s][1]) = 1 /\ ByteLen(pushed[s][2]) = 1 /\ ByteLen(pushed[s][3]) = 2
    /\ ring[s] = <<pushed[s][3]>>

\* C39: once SessionManager.shutdown() has run, no callback arms an idle
\* timer and the idle callback is not invoked
C39_NoIdleTimerAfterShutdown ==
  [][shutdownDone => (idleTimer' = "none" /\ op'[1] # "idle_fired")]_vars

\* C40: for every session in the store, each client that is ATTACHED to it
\* has exactly one data, one exit and one resize listener on it, and no
\* other client has a listener on it
C40_OneListenerSetPerAttachedClient ==
  \A s \in sessions :
    \A c \in Clients :
      LET n == IF state[c] = "ATTACHED" /\ attachedSession[c] = s THEN 1 ELSE 0
      IN /\ Cardinality({i \in 1 .. Len(dataL[s]) : dataL[s][i][1] = c}) = n
         /\ Cardinality({i \in 1 .. Len(exitL[s]) : exitL[s][i][1] = c}) = n
         /\ Cardinality({i \in 1 .. Len(resizeL[s]) : resizeL[s][i][1] = c}) = n

====
